---- MODULE Spec2Model ----
(***************************************************************************)
(* Model of the analysis engine of CoachTriathlon (src/strava_client.py):  *)
(* heart-rate zone model, time in zones, Banister TRIMP, heart-rate        *)
(* decoupling and the weekly fold of get_weekly_analysis.                  *)
(*                                                                         *)
(* Numbers.  Python floats are modelled in fixed point:                    *)
(*   TRIMP of one session       thousandths (1/1000)                       *)
(*   daily_trimp, monotony, strain   hundredths (round(x, 2))              *)
(*   trimp_total                tenths (round(x, 1))                       *)
(*   speed / heart-rate ratios  1/RatioScale                               *)
(* round() is Python's round-half-even.  Where IEEE-754 double rounding    *)
(* changes a result of the code inside the modelled domain (floor of       *)
(* 0.70 * hrmax, ties of the Karvonen bounds, the mean of equal daily      *)
(* values), the deviation is listed explicitly next to the operator.       *)
(* Optional values: None is <<>>, a present value v is <<v>>.              *)
(***************************************************************************)
EXTENDS Integers, Sequences, FiniteSets, TLC

VARIABLES
    pc,                 \* position of the modelled call
    zone_model,         \* "percent_max" | "karvonen"
    use_hrmax,          \* max heart rate the zone model / TRIMP is built with
    use_hrrest,         \* resting heart rate passed to _zones_karvonen
    zones,              \* list of (label, lo, hi) or <<>> before construction
    bpm,                \* argument of _zone_index
    zidx,               \* result of _zone_index (0-based, as in the code)
    duration,           \* moving time of the session, seconds
    avg_hr,             \* Optional average heart rate, tenths of bpm
    hr_stream,          \* heart-rate samples (Optional ints); <<>> when absent
    vel_stream,         \* speed samples, tenths of m/s; <<>> when absent
    tiz,                \* time-in-zone map (label -> seconds) or <<>>
    trimp,              \* result of _trimp_banister
    dec,                \* result of _hr_decoupling
    week,               \* state of get_weekly_analysis (record) or <<>>
    range,              \* state of _week_range_from_params (record) or <<>>
    brief,              \* state of _activity_to_brief (record) or <<>>
    fetch               \* state of _fetch_activities_in_range (record) or <<>>

vars == <<pc, zone_model, use_hrmax, use_hrrest, zones, bpm, zidx, duration,
          avg_hr, hr_stream, vel_stream, tiz, trimp, dec, week, range, brief,
          fetch>>

-----------------------------------------------------------------------------
(* Python values *)

None == <<>>

Some(v) == <<v>>

IsNone(o) == o = <<>>

Val(o) == o[1]

\* truthiness of an Optional number: None and 0 are falsy
Truthy(o) == o # <<>> /\ o[1] # 0

Min(a, b) == IF a <= b THEN a ELSE b

Max(a, b) == IF a >= b THEN a ELSE b

Abs(a) == IF a >= 0 THEN a ELSE -a

\* math.floor(n / d) for d > 0
FloorDiv(n, d) == n \div d

\* round(n / d) to the nearest integer, ties to even (Python 3 round), d > 0
RoundHalfEven(n, d) ==
    LET q == n \div d
        r == n - q * d
    IN  IF 2 * r > d THEN q + 1
        ELSE IF 2 * r < d THEN q
        ELSE IF q % 2 = 0 THEN q ELSE q + 1

RECURSIVE SumSeq(_)
SumSeq(s) == IF s = <<>> THEN 0 ELSE s[1] + SumSeq(Tail(s))

-----------------------------------------------------------------------------
(* Bounds of the model *)

MaxHr == 200

HrRestValues == {40, 60, 150, 230}

ZoneModels == {"percent_max", "karvonen"}

ZoneLabels == <<"Z1", "Z2", "Z3", "Z4", "Z5">>

-----------------------------------------------------------------------------
(* Zone model: _zones_percent_max, _zones_karvonen, _zone_index *)

\* hrmax for which the double product 0.70 * hrmax lies just below the
\* integer 7 * hrmax / 10, so that math.floor yields one less (hrmax <= 259)
FloorSeventyLow == {90, 170, 180}

\* math.floor(p/10 * hrmax) for p in {6, 7, 8, 9}
FloorPercent(p, h) ==
    IF p = 7 /\ h \in FloorSeventyLow THEN FloorDiv(7 * h, 10) - 1
    ELSE FloorDiv(p * h, 10)

Zone(label, lo, hi) == [label |-> label, lo |-> lo, hi |-> hi]

ZonesPercentMax(h) ==
    << Zone("Z1", 0, Some(FloorPercent(6, h))),
       Zone("Z2", FloorPercent(6, h), Some(FloorPercent(7, h))),
       Zone("Z3", FloorPercent(7, h), Some(FloorPercent(8, h))),
       Zone("Z4", FloorPercent(8, h), Some(FloorPercent(9, h))),
       Zone("Z5", FloorPercent(9, h), None) >>

\* <<p, hrmax, hrrest>> where hrrest + p/10 * (hrmax - hrrest) is a tie in
\* exact arithmetic but the double sum lies just above it, so that round()
\* goes up instead of to the even neighbour (hrmax <= 205, HrRestValues)
KarvonenTieUp == {<<7, 15, 60>>, <<7, 65, 230>>}

\* bpm(p) of _zones_karvonen: int(round(hrrest + p * (hrmax - hrrest)))
KarvonenBpm(p, h, r) ==
    IF <<p, h, r>> \in KarvonenTieUp
    THEN RoundHalfEven(10 * r + p * (h - r), 10) + 1
    ELSE RoundHalfEven(10 * r + p * (h - r), 10)

ZonesKarvonen(h, r) ==
    << Zone("Z1", 0, Some(KarvonenBpm(6, h, r))),
       Zone("Z2", KarvonenBpm(6, h, r), Some(KarvonenBpm(7, h, r))),
       Zone("Z3", KarvonenBpm(7, h, r), Some(KarvonenBpm(8, h, r))),
       Zone("Z4", KarvonenBpm(8, h, r), Some(KarvonenBpm(9, h, r))),
       Zone("Z5", KarvonenBpm(9, h, r), None) >>

BuildZoneList(model, h, r) ==
    IF model = "karvonen" THEN ZonesKarvonen(h, r) ELSE ZonesPercentMax(h)

\* the test of one loop iteration of _zone_index
ZoneMatches(v, z) ==
    \/ IsNone(z.hi) /\ v >= z.lo
    \/ ~IsNone(z.hi) /\ z.lo <= v /\ v < Val(z.hi)

\* _zone_index: first matching zone (0-based), 0 when none matches
ZoneIndex(v, zs) ==
    IF \E i \in 1..Len(zs) : ZoneMatches(v, zs[i])
    THEN (CHOOSE i \in 1..Len(zs) :
              /\ ZoneMatches(v, zs[i])
              /\ \A j \in 1..(i - 1) : ~ZoneMatches(v, zs[j])) - 1
    ELSE 0

-----------------------------------------------------------------------------
(* Specification of the zone model: the zones are built for one           *)
(* (model, hrmax, hrrest), then _zone_index is applied to a bpm value.     *)

Idle == <<>>

\* bpm values tried against a zone list: each boundary and its neighbours
BpmSamples(zs) ==
    {0, 150} \cup
    {v \in {zs[i].lo + d : i \in 2..Len(zs), d \in {-1, 0, 1}} : v >= 0}

InitZones ==
    /\ pc = "zones_start"
    /\ range = Idle
    /\ brief = Idle
    /\ fetch = Idle
    /\ zone_model \in ZoneModels
    /\ use_hrmax \in 1..MaxHr
    /\ use_hrrest \in (IF zone_model = "karvonen" THEN HrRestValues ELSE {60})
    /\ zones = <<>>
    /\ bpm = 0
    /\ zidx = 0
    /\ duration = 0
    /\ avg_hr = None
    /\ hr_stream = <<>>
    /\ vel_stream = <<>>
    /\ tiz = Idle
    /\ trimp = Idle
    /\ dec = Idle
    /\ week = Idle

BuildZones ==
    /\ pc = "zones_start"
    /\ zones' = BuildZoneList(zone_model, use_hrmax, use_hrrest)
    /\ pc' = "zones_built"
    /\ UNCHANGED <<zone_model, use_hrmax, use_hrrest, bpm, zidx, duration,
                   avg_hr, hr_stream, vel_stream, tiz, trimp, dec, week,
                   range, brief, fetch>>

CallZoneIndex ==
    /\ pc = "zones_built"
    /\ \E v \in BpmSamples(zones) :
          /\ bpm' = v
          /\ zidx' = ZoneIndex(v, zones)
    /\ pc' = "zone_indexed"
    /\ UNCHANGED <<zone_model, use_hrmax, use_hrrest, zones, duration,
                   avg_hr, hr_stream, vel_stream, tiz, trimp, dec, week,
                   range, brief, fetch>>

NextZones == BuildZones \/ CallZoneIndex

SpecZones == InitZones /\ [][NextZones]_vars

\* largest bpm value the zone claims are evaluated at
MaxBpm == 260

\* lower bounds of a zone list
LowerBounds(zs) == [i \in 1..Len(zs) |-> zs[i].lo]

\* C1: for every hr_max > 0 (and positive hr_rest) the zone list has exactly
\* the five zones Z1..Z5, Z1 starts at 0, every upper bound is the next
\* lower bound, Z5 is open-ended, the boundaries are strictly increasing and
\* every bpm >= 0 lies in exactly one zone.
C1_ZonesPartition ==
    pc # "zones_start" =>
        /\ Len(zones) = 5
        /\ \A i \in 1..5 : zones[i].label = ZoneLabels[i]
        /\ zones[1].lo = 0
        /\ \A i \in 1..4 : zones[i].hi = Some(zones[i + 1].lo)
        /\ zones[5].hi = None
        /\ \A i \in 1..4 : zones[i].lo < zones[i + 1].lo
        /\ \A v \in 0..MaxBpm :
              Cardinality({i \in 1..5 : ZoneMatches(v, zones[i])}) = 1

\* C2: _zone_index returns the unique index i with lower[i] <= v < upper[i]
\* (v >= lower[4] for the last zone); with percent_max and hr_max = 200 the
\* boundaries are 0, 120, 140, 160, 180 and 150 bpm is assigned to Z3.
C2_ZoneIndexUnique ==
    pc = "zone_indexed" =>
        /\ {i \in 1..Len(zones) : ZoneMatches(bpm, zones[i])} = {zidx + 1}
        /\ (zone_model = "percent_max" /\ use_hrmax = 200) =>
              /\ LowerBounds(zones) = <<0, 120, 140, 160, 180>>
              /\ bpm = 150 => zidx = 2

-----------------------------------------------------------------------------
(* TRIMP: _trimp_banister                                                  *)

\* outcome of a call: a returned value, or the exception it raised
Returned(v) == [exc |-> "", val |-> v]

Raised(e) == [exc |-> e, val |-> 0]

\* number of terms of the series that stands for math.exp
ExpTerms == 16

\* b * e / 100000 without leaving the 32-bit range (b < 5000000, e < 400000)
MulDivE5(b, e) ==
    LET p1 == (b \div 1000) * e
    IN  (p1 \div 100) + (((p1 % 100) * 1000 + (b % 1000) * e) \div 100000)

RECURSIVE ExpSeries(_, _, _)
\* sum of the terms k.. of exp(x); x and the terms in 1/100000
ExpSeries(x, k, term) ==
    IF k > ExpTerms \/ term = 0 THEN 0
    ELSE term + ExpSeries(x, k + 1, MulDivE5(term, x) \div k)

\* math.exp(x / 100000) in 1/10000, for 0 <= x <= 230400
ExpE4(x) == ExpSeries(x, 1, 100000) \div 10

\* max(0.0, min(1.2, avg_hr / hrmax)) in 1/100000, for hrmax # 0;
\* a is in tenths of bpm, h in bpm
HrRatioE5(a, h) ==
    IF (a < 0) # (h < 0) THEN 0
    ELSE Max(0, Min(120000, (10000 * Abs(a)) \div Abs(h)))

\* dur_min * hr_r * 0.64 * exp(1.92 * hr_r) in thousandths, r in 1/100000
BanisterValue(d, r) ==
    MulDivE5((d * r * 4) \div 375, ExpE4((192 * r) \div 100)) \div 10

\* _trimp_banister without the guard on hrmax: a plausible slip
TrimpBanisterNoHrmaxGuard(d, a, h) ==
    IF d <= 0 \/ ~Truthy(a) THEN Returned(0)
    ELSE IF IsNone(h) THEN Raised("TypeError")
    ELSE IF Val(h) = 0 THEN Raised("ZeroDivisionError")
    ELSE Returned(BanisterValue(d, HrRatioE5(Val(a), Val(h))))

\* _trimp_banister(duration_s, avg_hr, hrmax), result in thousandths;
\* a (tenths of bpm) and h (bpm) are Optional numbers, d <= 3600
TrimpBanister(d, a, h) ==
    IF d <= 0 \/ ~Truthy(a) \/ ~Truthy(h) THEN Returned(0)
    ELSE Returned(BanisterValue(d, HrRatioE5(Val(a), Val(h))))

TrimpDurations == {-60, 0, 1, 300, 3600}

TrimpAvgHrs == {None, Some(0), Some(-500), Some(905), Some(1440), Some(2500)}

TrimpHrMaxes == {None, Some(0), Some(-180), Some(150), Some(180), Some(190)}

InitTrimp ==
    /\ pc = "trimp_start"
    /\ range = Idle
    /\ brief = Idle
    /\ fetch = Idle
    /\ duration \in TrimpDurations
    /\ avg_hr \in TrimpAvgHrs
    /\ use_hrmax \in TrimpHrMaxes
    /\ zone_model = "percent_max"
    /\ use_hrrest = 60
    /\ zones = <<>>
    /\ bpm = 0
    /\ zidx = 0
    /\ hr_stream = <<>>
    /\ vel_stream = <<>>
    /\ tiz = Idle
    /\ trimp = Idle
    /\ dec = Idle
    /\ week = Idle

CallTrimp ==
    /\ pc = "trimp_start"
    /\ trimp' = TrimpBanister(duration, avg_hr, use_hrmax)
    /\ pc' = "trimp_done"
    /\ UNCHANGED <<zone_model, use_hrmax, use_hrrest, zones, bpm, zidx,
                   duration, avg_hr, hr_stream, vel_stream, tiz, dec, week,
                   range, brief, fetch>>

NextTrimp == CallTrimp

SpecTrimp == InitTrimp /\ [][NextTrimp]_vars

\* C5: _trimp_banister never raises, returns a value >= 0, and returns
\* exactly 0 whenever duration_s <= 0, avg_hr is zero or absent, or hr_max is
\* zero or absent.
C5_TrimpNonNegative ==
    pc = "trimp_done" =>
        /\ trimp.exc = ""
        /\ trimp.val >= 0
        /\ (\/ duration <= 0
            \/ avg_hr \in {None, Some(0)}
            \/ use_hrmax \in {None, Some(0)}) => trimp.val = 0

\* a session of positive duration and heart rate has been evaluated with
\* hr_max = 0 and returned 0
C5_Witness ==
    /\ pc = "trimp_done"
    /\ duration = 3600
    /\ avg_hr = Some(1440)
    /\ use_hrmax = Some(0)
    /\ trimp = Returned(0)

-----------------------------------------------------------------------------
(* Time in zones: _time_in_zones_from_streams, _time_in_zones_from_avg and  *)
(* the choice between them in get_weekly_analysis                          *)

\* len(hr_stream) >= max(CredibleMin, duration // CredibleDivisor)
CredibleMin == 10

CredibleDivisor == 6

Labels(zs) == {zs[i].label : i \in 1..Len(zs)}

\* samples of the stream that fall in zone i (1-based), None samples skipped
SamplesInZone(stream, zs, i) ==
    {k \in 1..Len(stream) :
        ~IsNone(stream[k]) /\ ZoneIndex(Val(stream[k]), zs) + 1 = i}

\* _time_in_zones_from_streams that does not skip the None samples
TimeInZonesFromStreamsCountNone(stream, zs) ==
    IF stream = <<>> THEN [l \in Labels(zs) |-> 0]
    ELSE [l \in Labels(zs) |->
            LET i == CHOOSE j \in 1..Len(zs) : zs[j].label = l
            IN  Cardinality(SamplesInZone(stream, zs, i))
                + (IF i = 1
                   THEN Cardinality({k \in 1..Len(stream) : IsNone(stream[k])})
                   ELSE 0)]

\* _time_in_zones_from_streams(hr_stream, zones, sampling_s=None): step = 1
TimeInZonesFromStreams(stream, zs) ==
    IF stream = <<>> THEN [l \in Labels(zs) |-> 0]
    ELSE [l \in Labels(zs) |->
            LET i == CHOOSE j \in 1..Len(zs) : zs[j].label = l
            IN  Cardinality(SamplesInZone(stream, zs, i))]

\* _time_in_zones_from_avg(avg_hr, duration_s, zones); int(round(avg_hr))
TimeInZonesFromAvg(a, d, zs) ==
    IF ~Truthy(a) \/ d <= 0 THEN [l \in Labels(zs) |-> 0]
    ELSE LET idx == ZoneIndex(RoundHalfEven(Val(a), 10), zs)
         IN  [l \in Labels(zs) |-> IF l = zs[idx + 1].label THEN d ELSE 0]

\* the stream is used when it is non-empty and long enough for the duration
StreamCredible(stream, d) ==
    stream # <<>> /\ Len(stream) >= Max(CredibleMin, d \div CredibleDivisor)

\* the choice with > in place of >=
TimeInZonesStrictThreshold(stream, a, d, zs) ==
    IF stream # <<>> /\ Len(stream) > Max(CredibleMin, d \div CredibleDivisor)
    THEN TimeInZonesFromStreams(stream, zs)
    ELSE TimeInZonesFromAvg(a, d, zs)

\* tiz of one session (get_weekly_analysis, get_weekly_details)
TimeInZones(stream, a, d, zs) ==
    IF StreamCredible(stream, d)
    THEN TimeInZonesFromStreams(stream, zs)
    ELSE TimeInZonesFromAvg(a, d, zs)

\* a heart-rate stream of n samples; every k-th sample is None (k > 0)
HrSamples(n, k) ==
    [i \in 1..n |-> IF k > 0 /\ i % k = 0 THEN None
                    ELSE Some(90 + 12 * (i % 9))]

\* longest stream of the time-in-zone specification
MaxTizLen == 12

TizStreams ==
    {HrSamples(n, k) : n \in {0, 9, 10, 11, MaxTizLen}, k \in {0, 1, 3}}

TizDurations == {-5, 0, 30, 60, 66, 72, 300}

TizAvgHrs == {None, Some(0), Some(955), Some(1500), Some(1855)}

\* <<zone model, hrmax, hrrest>> of the time-in-zone specification
TizZoneSetups ==
    { <<"percent_max", 190, 60>>, <<"percent_max", 5, 60>>,
      <<"karvonen", 180, 60>>, <<"karvonen", 150, 230>> }

InitTiz ==
    /\ pc = "tiz_start"
    /\ range = Idle
    /\ brief = Idle
    /\ fetch = Idle
    /\ \E zs \in TizZoneSetups :
          /\ zone_model = zs[1]
          /\ use_hrmax = zs[2]
          /\ use_hrrest = zs[3]
    /\ zones = BuildZoneList(zone_model, use_hrmax, use_hrrest)
    /\ duration \in TizDurations
    /\ avg_hr \in TizAvgHrs
    /\ hr_stream \in TizStreams
    /\ bpm = 0
    /\ zidx = 0
    /\ vel_stream = <<>>
    /\ tiz = Idle
    /\ trimp = Idle
    /\ dec = Idle
    /\ week = Idle

CallTimeInZones ==
    /\ pc = "tiz_start"
    /\ tiz' = TimeInZones(hr_stream, avg_hr, duration, zones)
    /\ pc' = "tiz_done"
    /\ UNCHANGED <<zone_model, use_hrmax, use_hrrest, zones, bpm, zidx,
                   duration, avg_hr, hr_stream, vel_stream, trimp, dec, week,
                   range, brief, fetch>>

NextTiz == CallTimeInZones

SpecTiz == InitTiz /\ [][NextTiz]_vars

\* sum of the values of a time-in-zone map
TizTotal(t) == SumSeq([i \in 1..Len(ZoneLabels) |-> t[ZoneLabels[i]]])

NonNullCount(stream) == Cardinality({k \in 1..Len(stream) : ~IsNone(stream[k])})

\* all of d is in one zone, a zone that contains the rounded average
AllInZoneOfAverage(t, a, d, zs) ==
    \E i \in 1..Len(zs) :
        /\ ZoneMatches(RoundHalfEven(Val(a), 10), zs[i])
        /\ t[zs[i].label] = d
        /\ \A l \in DOMAIN t : l # zs[i].label => t[l] = 0

C4_TizSumsToDuration ==
    (pc = "tiz_done" /\ TizTotal(tiz) # 0) => TizTotal(tiz) = duration

\* C4 amended: a map that is not all-zero sums to the moving duration when
\* the average-based attribution was used, and to the number of non-null
\* samples of the heart-rate stream when the stream-based one was used.
C4_TizSumByAttribution ==
    (pc = "tiz_done" /\ TizTotal(tiz) # 0) =>
        IF StreamCredible(hr_stream, duration)
        THEN TizTotal(tiz) = NonNullCount(hr_stream)
        ELSE TizTotal(tiz) = duration

\* a credible stream with null samples was attributed sample by sample
C4_Witness ==
    /\ pc = "tiz_done"
    /\ StreamCredible(hr_stream, duration)
    /\ NonNullCount(hr_stream) \in 1..(Len(hr_stream) - 1)
    /\ TizTotal(tiz) # duration
    /\ duration > 0

-----------------------------------------------------------------------------
(* Decoupling: _hr_decoupling                                              *)

\* below this overlap length there is no result
MinSamples == 60

\* speed / heart-rate ratios are kept in 1/RatioScale of (0.1 m/s) / bpm
RatioScale == 10000

\* Python slices seq[:mid] and seq[mid:]
Before(seq, mid) == SubSeq(seq, 1, Min(mid, Len(seq)))

From(seq, mid) == SubSeq(seq, mid + 1, Len(seq))

\* hh[i] and hh[i] > 0, i 1-based and in range
ValidHr(hh, i) == ~IsNone(hh[i]) /\ Val(hh[i]) > 0

\* avg_ratio(vv, hh): the subscripts run over range(len(vv)); hh[i] is
\* evaluated first and raises IndexError past the end of hh.  The result
\* carries the 0-based positions subscripted in hh and in vv.
AvgRatio(vv, hh) ==
    IF Len(vv) > Len(hh)
    THEN [exc |-> "IndexError", val |-> None,
          hh_read |-> 0..Len(hh),
          vv_read |-> {i - 1 : i \in {j \in 1..Len(hh) : ValidHr(hh, j)}}]
    ELSE LET valid == {i \in 1..Len(vv) : ValidHr(hh, i)}
             ratios == [i \in 1..Len(vv) |->
                          IF i \in valid
                          THEN (vv[i] * RatioScale) \div Val(hh[i]) ELSE 0]
         IN  [exc |-> "",
              val |-> IF valid = {} THEN None
                      ELSE Some(SumSeq(ratios) \div Cardinality(valid)),
              hh_read |-> 0..(Len(vv) - 1),
              vv_read |-> {i - 1 : i \in valid}]

Shift(S, k) == {i + k : i \in S}

\* _hr_decoupling(hr, vel_mps): percentage in hundredths, or None, or the
\* exception raised; hr_read / vel_read are the 0-based positions subscripted
HrDecoupling(hr, vel) ==
    LET n == Min(Len(hr), Len(vel))
        mid == n \div 2
    IN  IF n < MinSamples
        THEN [exc |-> "", val |-> None, hr_read |-> {}, vel_read |-> {}]
        ELSE LET r1 == AvgRatio(Before(vel, mid), Before(hr, mid))
                 r2 == AvgRatio(From(vel, mid), From(hr, mid))
             IN  [exc |-> r2.exc,
                  val |-> IF r2.exc # "" THEN None
                          ELSE IF IsNone(r1.val) \/ IsNone(r2.val) \/ r1.val = Some(0)
                          THEN None
                          ELSE Some(RoundHalfEven((Val(r2.val) - Val(r1.val)) * 10000,
                                                  Val(r1.val))),
                  hr_read |-> r1.hh_read \cup Shift(r2.hh_read, mid),
                  vel_read |-> r1.vv_read \cup Shift(r2.vv_read, mid)]

DecLens == {MinSamples - 1, MinSamples, MinSamples + 1, MinSamples + 3}

\* heart-rate series of n samples
DecHr(n, kind) ==
    [i \in 1..n |->
        IF kind = "gaps_first" /\ i <= 32 THEN (IF i % 2 = 0 THEN None ELSE Some(0))
        ELSE IF kind = "gaps_second" /\ i > 29 THEN None
        ELSE IF kind = "some_gaps" /\ i % 7 = 0 THEN None
        ELSE Some(120 + (i \div 10))]

\* speed series of n samples, tenths of m/s
DecVel(n, kind) ==
    [i \in 1..n |->
        IF kind = "stopped_late" /\ i > 32 THEN 0
        ELSE IF kind = "fading" /\ i > 30 THEN 28
        ELSE 31]

DecHrKinds == {"valid", "some_gaps", "gaps_first", "gaps_second"}

DecVelKinds == {"steady", "fading", "stopped_late"}

InitDec ==
    /\ pc = "dec_start"
    /\ range = Idle
    /\ brief = Idle
    /\ fetch = Idle
    /\ hr_stream \in {DecHr(n, k) : n \in DecLens, k \in DecHrKinds}
    /\ vel_stream \in {DecVel(n, k) : n \in DecLens, k \in DecVelKinds}
    /\ zone_model = "percent_max"
    /\ use_hrmax = 190
    /\ use_hrrest = 60
    /\ zones = <<>>
    /\ bpm = 0
    /\ zidx = 0
    /\ duration = 0
    /\ avg_hr = None
    /\ tiz = Idle
    /\ trimp = Idle
    /\ dec = Idle
    /\ week = Idle

CallHrDecoupling ==
    /\ pc = "dec_start"
    /\ dec' = HrDecoupling(hr_stream, vel_stream)
    /\ pc' = "dec_done"
    /\ UNCHANGED <<zone_model, use_hrmax, use_hrrest, zones, bpm, zidx,
                   duration, avg_hr, hr_stream, vel_stream, tiz, trimp, week,
                   range, brief, fetch>>

NextDec == CallHrDecoupling

SpecDec == InitDec /\ [][NextDec]_vars

\* overlap length and midpoint of the two series
Overlap == Min(Len(hr_stream), Len(vel_stream))

\* positions lo..hi (0-based) of the heart-rate series hold a sample > 0
HasValidHr(lo, hi) ==
    \E i \in lo..hi : ~IsNone(hr_stream[i + 1]) /\ Val(hr_stream[i + 1]) > 0

\* C6: _hr_decoupling returns no result whenever min(len(hr), len(speed)) is
\* below 60, and returns a (finite) percentage whenever the overlap is at
\* least 60 and each half of the window has a sample with heart_rate > 0.
C6_DecouplingDefined ==
    pc = "dec_done" =>
        /\ Overlap < 60 => dec.exc = "" /\ dec.val = None
        /\ (/\ Overlap >= 60
            /\ HasValidHr(0, (Overlap \div 2) - 1)
            /\ HasValidHr(Overlap \div 2, Overlap - 1))
           => dec.exc = "" /\ dec.val # None

\* C7: with series of different lengths the samples are paired over the
\* overlap n = min(len(hr), len(speed)) only: the second half subscripts
\* exactly n // 2 .. n - 1 of the heart-rate series and only positions in
\* that range of the speed series, nothing past n - 1 is subscripted, and
\* the call raises no exception, whichever series is the longer one.
C7_PairsWithinOverlap ==
    (pc = "dec_done" /\ Len(hr_stream) # Len(vel_stream) /\ Overlap >= 60) =>
        /\ dec.exc = ""
        /\ {i \in dec.hr_read : i >= Overlap \div 2} = (Overlap \div 2)..(Overlap - 1)
        /\ \A i \in dec.hr_read \cup dec.vel_read : i <= Overlap - 1

-----------------------------------------------------------------------------
(* Weekly analysis: get_weekly_analysis                                    *)

\* fallbacks of `hrmax or _estimate_hrmax(activities) or 190`, `hrrest or 60`
DefaultHrMax == 190

DefaultHrRest == 60

\* sport types for which the decoupling is computed
DecouplingTypes == {"Ride", "VirtualRide", "Run", "TrailRun"}

\* the literal key of sessions without a start timestamp
Unknown == <<"u", "n", "k", "n", "o", "w", "n">>

\* Python dict: d.get(k, default) and d[k] = v
Get(d, k, default) == IF k \in DOMAIN d THEN d[k] ELSE default

Put(d, k, v) == [x \in (DOMAIN d) \cup {k} |-> IF x = k THEN v ELSE d[x]]

RECURSIVE SumOver(_, _)
\* sum of d[k] over the keys K
SumOver(d, K) ==
    IF K = {} THEN 0
    ELSE LET k == CHOOSE x \in K : TRUE IN d[k] + SumOver(d, K \ {k})

RECURSIVE ISqrtBetween(_, _, _)
ISqrtBetween(x, lo, hi) ==
    IF lo >= hi THEN lo
    ELSE LET m == (lo + hi + 1) \div 2
         IN  IF m * m <= x THEN ISqrtBetween(x, m, hi)
             ELSE ISqrtBetween(x, lo, m - 1)

\* floor(math.sqrt(x)) for 0 <= x < 2^31
ISqrt(x) == ISqrtBetween(x, 0, 46340)

\* _estimate_hrmax: int(round(max of the max_heartrate values)), or None;
\* max_heartrate is in tenths of bpm
EstimateHrmax(acts) ==
    LET seen == {Val(acts[j].max_heartrate) :
                    j \in {k \in 1..Len(acts) : ~IsNone(acts[k].max_heartrate)}}
    IN  IF seen = {} THEN None
        ELSE Some(RoundHalfEven(CHOOSE m \in seen : \A x \in seen : x <= m, 10))

\* the selection with the estimate before the override
UseHrmaxEstimateFirst(hrmax, acts) ==
    IF Truthy(EstimateHrmax(acts)) THEN Val(EstimateHrmax(acts))
    ELSE IF Truthy(hrmax) THEN Val(hrmax)
    ELSE DefaultHrMax

\* hrmax or _estimate_hrmax(activities) or 190
UseHrmax(hrmax, acts) ==
    IF Truthy(hrmax) THEN Val(hrmax)
    ELSE IF Truthy(EstimateHrmax(acts)) THEN Val(EstimateHrmax(acts))
    ELSE DefaultHrMax

\* (b.get("start_date_local") or "")[:10] with the whole timestamp as key
DayKeyWholeTimestamp(ts) == IF ts = <<>> THEN Unknown ELSE ts

\* (b.get("start_date_local") or "")[:10] or "unknown"; a timestamp is the
\* sequence of its characters, None and "" are <<>>
DayKey(ts) ==
    IF SubSeq(ts, 1, Min(10, Len(ts))) = <<>> THEN Unknown
    ELSE SubSeq(ts, 1, Min(10, Len(ts)))

\* int(b.get("moving_time_s") or 0)
Duration(b) == IF Truthy(b.moving_time_s) THEN Val(b.moving_time_s) ELSE 0

\* trimp of one session: _trimp_banister(duration, float(avg_hr) if avg_hr
\* else 0.0, use_hrmax), in thousandths
SessionTrimp(b, h) ==
    TrimpBanister(Duration(b),
                  IF Truthy(b.avg_heartrate) THEN b.avg_heartrate ELSE Some(0),
                  Some(h)).val

\* dec of one session: None unless compute_decoupling, both streams and a
\* sport type of DecouplingTypes
SessionDecoupling(b, compute_decoupling) ==
    IF /\ compute_decoupling
       /\ b.streams.heartrate # <<>>
       /\ b.streams.velocity_smooth_mps # <<>>
       /\ b.type \in DecouplingTypes
    THEN HrDecoupling(b.streams.heartrate, b.streams.velocity_smooth_mps)
    ELSE [exc |-> "", val |-> None, hr_read |-> {}, vel_read |-> {}]

\* values beyond this saturate: the quotient of a mean by a rounding residue
\* of the order of 1e-15 is of the order of 1e15
Saturated == 2000000000

\* <<c, n>>: n daily values all equal to c / 100 whose double mean
\* sum(values) / n is not c / 100, so that the deviations x - mean_daily and
\* std are not 0 (n <= 4, c among the daily values of WeekSessions)
MeanResidue == {<<1302, 3>>}

\* sum over the days of (n * x - sum)^2 = n^2 (n - 1) var, in hundredths^2
SquaredDeviations(d) ==
    LET n == Cardinality(DOMAIN d)
        total == SumOver(d, DOMAIN d)
        sq == [k \in DOMAIN d |-> (n * d[k] - total) * (n * d[k] - total)]
    IN  SumOver(sq, DOMAIN d)

\* n * math.sqrt(var) in 1/10000, for two days or more: the root of
\* sum((n x - sum)^2) / (n - 1)
StdTimesN(d) ==
    LET n == Cardinality(DOMAIN d)
        e == SquaredDeviations(d)
    IN  IF e < 200000 THEN Max(1, ISqrt((10000 * e) \div (n - 1)))
        ELSE IF e < 20000000 THEN 10 * ISqrt((100 * e) \div (n - 1))
        ELSE 100 * ISqrt(e \div (n - 1))

\* the double std is > 0: the daily values differ, or they are equal and
\* their mean carries a rounding residue
StdPositive(d) ==
    LET n == Cardinality(DOMAIN d)
    IN  /\ n > 1
        /\ \/ SquaredDeviations(d) > 0
           \/ \E k \in DOMAIN d : <<d[k], n>> \in MeanResidue

\* mean_daily in 1/10000
MeanDailyE4(d) == (100 * SumOver(d, DOMAIN d)) \div Cardinality(DOMAIN d)

\* monotony of lines 522-532, in hundredths, None without daily values:
\* round(mean_daily / (std if std > 0 else 1.0), 2)
Monotony(d) ==
    IF DOMAIN d = {} THEN None
    ELSE IF ~StdPositive(d) THEN Some(RoundHalfEven(MeanDailyE4(d), 100))
    ELSE IF SquaredDeviations(d) = 0 THEN Some(Saturated)
    ELSE Some(Min(Saturated,
                  RoundHalfEven(10000 * SumOver(d, DOMAIN d), StdTimesN(d))))

\* round(a * b / 10) saturating
SatProduct(a, b) ==
    IF a # 0 /\ b > Saturated \div (10 * a) THEN Saturated
    ELSE Min(Saturated, RoundHalfEven(a * b, 10))

\* monotony and strain with the unrounded weekly_trimp in the product
RecoveryUnroundedTotal(w, trimp_total) ==
    [monotony |-> Monotony(w.daily_trimp),
     strain |-> IF IsNone(Monotony(w.daily_trimp)) THEN None
                ELSE Some(SatProduct(w.weekly_trimp,
                                     Val(Monotony(w.daily_trimp))) \div 100)]

\* monotony and strain (lines 522-533); trimp_total is
\* weekly_summary["trimp_total"] in tenths, strain in hundredths
Recovery(w, trimp_total) ==
    [monotony |-> Monotony(w.daily_trimp),
     strain |-> IF IsNone(Monotony(w.daily_trimp)) THEN None
                ELSE Some(SatProduct(trimp_total, Val(Monotony(w.daily_trimp))))]

\* start_date_local values: ISO timestamps as character sequences
OnDay(d1, d2) == <<"2", "0", "2", "5", "-", "0", "8", "-", d1, d2>>

AtTime(h1, h2) == <<"T", h1, h2, ":", "3", "0", ":", "0", "0", "Z">>

NoStreams == [heartrate |-> <<>>, velocity_smooth_mps |-> <<>>]

\* an activity as _activity_to_brief and _fetch_streams deliver it:
\* avg_heartrate and max_heartrate in tenths of bpm, speed in tenths of m/s
Session(type, ts, moving, avg, mx, hr, vel) ==
    [type |-> type, start_date_local |-> ts, moving_time_s |-> moving,
     avg_heartrate |-> avg, max_heartrate |-> mx,
     streams |-> [heartrate |-> hr, velocity_smooth_mps |-> vel]]

MaxSessions == 3

WeekSessions ==
    { Session("Run", OnDay("1", "1") \o AtTime("0", "7"), Some(300),
              Some(1500), Some(1752), DecHr(60, "valid"), DecVel(60, "fading")),
      Session("Run", OnDay("1", "1") \o AtTime("1", "8"), Some(300),
              Some(1500), None, <<>>, <<>>),
      Session("Ride", OnDay("1", "2") \o AtTime("0", "7"), Some(300),
              Some(1500), Some(1810), <<>>, <<>>),
      Session("Ride", OnDay("1", "3") \o AtTime("0", "7"), Some(300),
              Some(1500), None, <<>>, <<>>),
      Session("Swim", <<>>, Some(240), Some(1325), None, HrSamples(12, 3), <<>>),
      Session("Run", OnDay("1", "2") \o AtTime("1", "8"), Some(120),
              None, None, DecHr(60, "some_gaps"), DecVel(61, "steady")),
      Session("Yoga", OnDay("1", "3"), None, Some(0), Some(0), <<>>, <<>>) }

\* the query parameters hrmax, hrrest, zone_model, with_streams,
\* compute_decoupling
WeekRequests ==
    { <<None, None, "percent_max", TRUE, TRUE>>,
      <<Some(180), None, "percent_max", TRUE, TRUE>>,
      <<None, Some(40), "karvonen", TRUE, FALSE>>,
      <<Some(180), Some(0), "karvonen", FALSE, TRUE>>,
      <<Some(0), None, "percent_max", FALSE, FALSE>>,
      <<Some(-180), None, "percent_max", FALSE, FALSE>> }

InitWeek ==
    /\ pc = "week_fetch"
    /\ range = Idle
    /\ brief = Idle
    /\ fetch = Idle
    /\ \E rq \in WeekRequests :
          /\ zone_model = rq[3]
          /\ week = [hrmax |-> rq[1], hrrest |-> rq[2],
                     with_streams |-> rq[4], compute_decoupling |-> rq[5],
                     activities |-> <<>>, i |-> 0,
                     weekly_zone_seconds |-> <<>>, weekly_trimp |-> 0,
                     total_time_s |-> 0, daily_trimp |-> <<>>,
                     trimp_by_type |-> <<>>, analyzed_sessions |-> <<>>,
                     weekly_summary |-> <<>>, recovery |-> <<>>,
                     by_type |-> <<>>]
    /\ use_hrmax = 0
    /\ use_hrrest = 0
    /\ zones = <<>>
    /\ bpm = 0
    /\ zidx = 0
    /\ duration = 0
    /\ avg_hr = None
    /\ hr_stream = <<>>
    /\ vel_stream = <<>>
    /\ tiz = Idle
    /\ trimp = Idle
    /\ dec = Idle

\* one turn of the loop of lines 449-459: the brief of the next fetched
\* activity, with its streams when with_streams and one of them is not empty
FetchActivity ==
    /\ pc = "week_fetch"
    /\ Len(week.activities) < MaxSessions
    /\ \E a \in WeekSessions :
          week' = [week EXCEPT !.activities =
                      Append(@, IF week.with_streams THEN a
                                ELSE [a EXCEPT !.streams = NoStreams])]
    /\ UNCHANGED <<pc, zone_model, use_hrmax, use_hrrest, zones, bpm, zidx,
                   duration, avg_hr, hr_stream, vel_stream, tiz, trimp, dec,
                   range, brief, fetch>>

\* lines 461-471: hrmax and zones of the week, empty accumulators
StartFold ==
    /\ pc = "week_fetch"
    /\ use_hrmax' = UseHrmax(week.hrmax, week.activities)
    /\ use_hrrest' = (IF Truthy(week.hrrest) THEN Val(week.hrrest)
                      ELSE DefaultHrRest)
    /\ zones' = BuildZoneList(zone_model, use_hrmax', use_hrrest')
    /\ week' = [week EXCEPT
                   !.weekly_zone_seconds = [l \in Labels(zones') |-> 0]]
    /\ pc' = "week_fold"
    /\ UNCHANGED <<zone_model, bpm, zidx, duration, avg_hr, hr_stream,
                   vel_stream, tiz, trimp, dec,
                   range, brief, fetch>>

\* the entry appended to analyzed_sessions (lines 504-509), with the fields
\* of the brief that are read afterwards
AnalyzedSession(b, t, tr, d) ==
    [type |-> b.type, start_date_local |-> b.start_date_local,
     moving_time_s |-> b.moving_time_s, time_in_zones_s |-> t,
     trimp |-> RoundHalfEven(tr, 100), hr_decoupling_percent |-> d]

\* the accumulations of lines 493-509 for session b with time in zones t and
\* trimp tr (thousandths); daily_trimp and trimp_by_type are in hundredths
Accumulate(w, b, t, tr, d) ==
    [w EXCEPT
        !.i = @ + 1,
        !.weekly_zone_seconds = [l \in DOMAIN @ |-> @[l] + Get(t, l, 0)],
        !.weekly_trimp = @ + tr,
        !.total_time_s = @ + Duration(b),
        !.daily_trimp =
            Put(@, DayKey(b.start_date_local),
                RoundHalfEven(10 * Get(@, DayKey(b.start_date_local), 0) + tr, 10)),
        !.trimp_by_type =
            Put(@, b.type, RoundHalfEven(10 * Get(@, b.type, 0) + tr, 10)),
        !.analyzed_sessions = Append(@, AnalyzedSession(b, t, tr, d))]

\* one turn of the loop of lines 473-509; an exception raised by
\* _hr_decoupling leaves the function before anything is accumulated
AnalyzeSession ==
    /\ pc = "week_fold"
    /\ week.i < Len(week.activities)
    /\ LET b == week.activities[week.i + 1]
       IN  /\ duration' = Duration(b)
           /\ avg_hr' = b.avg_heartrate
           /\ hr_stream' = b.streams.heartrate
           /\ vel_stream' = b.streams.velocity_smooth_mps
           /\ tiz' = TimeInZones(hr_stream', avg_hr', duration', zones)
           /\ trimp' = Returned(SessionTrimp(b, use_hrmax))
           /\ dec' = SessionDecoupling(b, week.compute_decoupling)
           /\ IF dec'.exc # ""
              THEN /\ pc' = "week_raised"
                   /\ week' = week
              ELSE /\ pc' = pc
                   /\ week' = Accumulate(week, b, tiz', trimp'.val, dec'.val)
    /\ UNCHANGED <<zone_model, use_hrmax, use_hrrest, zones, bpm, zidx,
                   range, brief, fetch>>

\* weekly_summary (lines 511-520): total_time_h in hundredths of an hour,
\* trimp_total in tenths
WeeklySummary(w) ==
    [sessions |-> Len(w.analyzed_sessions),
     total_time_h |-> RoundHalfEven(w.total_time_s, 36),
     trimp_total |-> RoundHalfEven(w.weekly_trimp, 100),
     time_in_zones_s |-> w.weekly_zone_seconds,
     zone_model |-> zone_model,
     hrmax_used |-> use_hrmax,
     hrrest_used |-> w.hrrest]

\* the sessions of sport type t
OfType(sessions, t) == {j \in 1..Len(sessions) : sessions[j].type = t}

\* by_type after the loop of lines 544-554: per sport type the count, the
\* seconds, the sum of the rounded session trimps (tenths) and the time in
\* zones
ByTypeAccumulated(sessions, labels) ==
    [t \in {sessions[j].type : j \in 1..Len(sessions)} |->
        [count |-> Cardinality(OfType(sessions, t)),
         total_time_s |->
            SumOver([j \in OfType(sessions, t) |->
                        IF Truthy(sessions[j].moving_time_s)
                        THEN Val(sessions[j].moving_time_s) ELSE 0],
                    OfType(sessions, t)),
         trimp |-> SumOver([j \in OfType(sessions, t) |-> sessions[j].trimp],
                           OfType(sessions, t)),
         time_in_zones_s |->
            [l \in labels |->
                SumOver([j \in OfType(sessions, t) |->
                            Get(sessions[j].time_in_zones_s, l, 0)],
                        OfType(sessions, t))]]]

\* the loop of lines 556-559 without `del bt["total_time_s"]`
ByTypeKeepAccumulator(sessions, labels) ==
    LET acc == ByTypeAccumulated(sessions, labels)
    IN  [t \in DOMAIN acc |->
            [count |-> acc[t].count,
             total_time_s |-> acc[t].total_time_s,
             trimp |-> acc[t].trimp,
             time_in_zones_s |-> acc[t].time_in_zones_s,
             total_time_h |-> RoundHalfEven(acc[t].total_time_s, 36)]]

\* by_type (lines 543-559): total_time_h in hundredths of an hour is added,
\* trimp is rounded to one decimal and total_time_s is deleted
ByType(sessions, labels) ==
    LET acc == ByTypeAccumulated(sessions, labels)
    IN  [t \in DOMAIN acc |->
            [count |-> acc[t].count,
             trimp |-> acc[t].trimp,
             time_in_zones_s |-> acc[t].time_in_zones_s,
             total_time_h |-> RoundHalfEven(acc[t].total_time_s, 36)]]

\* lines 511-567: summary, recovery and by_type of the finished fold
FinishWeek ==
    /\ pc = "week_fold"
    /\ week.i = Len(week.activities)
    /\ week' = [week EXCEPT
                   !.weekly_summary = WeeklySummary(week),
                   !.recovery = Recovery(week, WeeklySummary(week).trimp_total),
                   !.by_type = ByType(week.analyzed_sessions, Labels(zones))]
    /\ pc' = "week_done"
    /\ UNCHANGED <<zone_model, use_hrmax, use_hrrest, zones, bpm, zidx,
                   duration, avg_hr, hr_stream, vel_stream, tiz, trimp, dec,
                   range, brief, fetch>>

NextWeek == FetchActivity \/ StartFold \/ AnalyzeSession \/ FinishWeek

SpecWeek == InitWeek /\ [][NextWeek]_vars

\* the sessions folded so far
Folded == SubSeq(week.activities, 1, week.i)

\* the calendar date of a session: the first 10 characters of its local
\* start timestamp, "unknown" without one
DayOf(b) ==
    IF b.start_date_local = <<>> THEN Unknown
    ELSE [c \in 1..Min(10, Len(b.start_date_local)) |-> b.start_date_local[c]]

RECURSIVE DayBucket(_, _)
\* the trimps of the first j folded sessions of day k, added one by one and
\* rounded to hundredths after each addition
DayBucket(k, j) ==
    IF j = 0 THEN 0
    ELSE IF DayOf(Folded[j]) = k
    THEN RoundHalfEven(10 * DayBucket(k, j - 1) + SessionTrimp(Folded[j], use_hrmax), 10)
    ELSE DayBucket(k, j - 1)

\* C8: during and after the fold, the daily buckets are exactly the calendar
\* dates of the folded sessions ("unknown" for a session without timestamp),
\* the bucket of a date holds the trimps of the sessions of that date and of
\* no other, and in the result the sum of the buckets equals trimp_total up
\* to the rounding of the output: 0.05 for the total, 0.005 per session
C8_DailyBuckets ==
    pc \in {"week_fold", "week_done"} =>
        /\ DOMAIN week.daily_trimp = {DayOf(Folded[j]) : j \in 1..week.i}
        /\ \A k \in DOMAIN week.daily_trimp :
              week.daily_trimp[k] = DayBucket(k, week.i)
        /\ pc = "week_done" =>
              2 * Abs(SumOver(week.daily_trimp, DOMAIN week.daily_trimp)
                      - 10 * week.weekly_summary.trimp_total)
                 <= 10 + Len(week.activities)

\* three sessions, two of them on the same day with a non-zero trimp each,
\* and one without timestamp
C8_Witness ==
    /\ pc = "week_done"
    /\ Len(week.activities) = 3
    /\ DOMAIN week.daily_trimp = {Unknown, OnDay("1", "1")}
    /\ week.daily_trimp[OnDay("1", "1")] = 2642
    /\ week.analyzed_sessions[1].trimp = 132
    /\ week.analyzed_sessions[3].trimp = 132
    /\ week.daily_trimp[Unknown] = 774
    /\ week.weekly_summary.trimp_total = 342

\* C9: monotony is None exactly when the week has no session; for a single
\* day or days of equal trimp (standard deviation 0) it is the mean daily
\* trimp, otherwise the mean divided by the sample standard deviation
C9_MonotonyMeanOverStd ==
    pc = "week_done" =>
        LET d == week.daily_trimp
            m == week.recovery.monotony
        IN  /\ IsNone(m) <=> Len(week.activities) = 0
            /\ ~IsNone(m) =>
                  IF Cardinality(DOMAIN d) = 1 \/ SquaredDeviations(d) = 0
                  THEN Val(m) = RoundHalfEven(MeanDailyE4(d), 100)
                  ELSE Val(m) = RoundHalfEven(10000 * SumOver(d, DOMAIN d),
                                              StdTimesN(d))

\* C10: strain is None exactly when monotony is None; otherwise it is the
\* product of weekly_summary.trimp_total, which is the sum of the session
\* trimps rounded to one decimal, and the reported monotony, rounded to two
\* decimals (beyond Saturated the product is Saturated)
C10_StrainIsTotalTimesMonotony ==
    pc = "week_done" =>
        LET m == week.recovery.monotony
            s == week.recovery.strain
            t == week.weekly_summary.trimp_total
        IN  /\ IsNone(s) <=> IsNone(m)
            /\ t = RoundHalfEven(
                      SumSeq([j \in 1..Len(week.activities) |->
                                 SessionTrimp(week.activities[j], use_hrmax)]),
                      100)
            /\ ~IsNone(m) =>
                  IF t = 0 \/ Val(m) <= Saturated \div (10 * t)
                  THEN 2 * Abs(10 * Val(s) - t * Val(m)) <= 10
                  ELSE Val(s) = Saturated

\* two days of different trimp: a standard deviation above 0, a monotony
\* that is not the mean and a strain above 0
C10_Witness ==
    /\ pc = "week_done"
    /\ Cardinality(DOMAIN week.daily_trimp) = 2
    /\ SquaredDeviations(week.daily_trimp) > 0
    /\ week.weekly_summary.trimp_total = 396
    /\ week.recovery.monotony = Some(212)
    /\ week.recovery.strain = Some(8395)

\* the largest observed max_heartrate (tenths of bpm), None without one
ObservedMax(acts) ==
    LET seen == {Val(acts[j].max_heartrate) :
                    j \in {k \in 1..Len(acts) : ~IsNone(acts[k].max_heartrate)}}
    IN  IF seen = {} THEN None
        ELSE Some(CHOOSE m \in seen : \A x \in seen : x <= m)

\* C11: whatever the hrmax override and the observed max_heartrate values,
\* the zones are built with an hr_max > 0
C11_ZonesBuiltWithPositiveHrmax ==
    pc \in {"week_fold", "week_raised", "week_done"} => use_hrmax > 0

\* C12 as stated: the applied hr_max is the override when one is supplied,
\* else the largest observed max_heartrate, else 190; the zones, every
\* session trimp and hrmax_used are those of this one value
C12_HrmaxSelection ==
    pc \in {"week_fold", "week_done"} =>
        /\ ~IsNone(week.hrmax) => use_hrmax = Val(week.hrmax)
        /\ (IsNone(week.hrmax) /\ ~IsNone(ObservedMax(week.activities))) =>
              10 * use_hrmax = Val(ObservedMax(week.activities))
        /\ (IsNone(week.hrmax) /\ IsNone(ObservedMax(week.activities))) =>
              use_hrmax = DefaultHrMax

\* the value C12_HrmaxSelectionNonZero expects
SelectedHrmax ==
    IF ~IsNone(week.hrmax) /\ Val(week.hrmax) # 0 THEN Val(week.hrmax)
    ELSE IF /\ ~IsNone(ObservedMax(week.activities))
            /\ RoundHalfEven(Val(ObservedMax(week.activities)), 10) # 0
    THEN RoundHalfEven(Val(ObservedMax(week.activities)), 10)
    ELSE DefaultHrMax

\* C12 amended: the applied hr_max is the override when one is supplied and
\* is not 0, else the largest observed max_heartrate rounded to the nearest
\* integer when there is one and it is not 0, else 190; the zones, every
\* session trimp and hrmax_used are those of this one value
C12_HrmaxSelectionNonZero ==
    pc \in {"week_fold", "week_done"} =>
        /\ use_hrmax = SelectedHrmax
        /\ zones = BuildZoneList(zone_model, SelectedHrmax, use_hrrest)
        /\ \A j \in 1..week.i :
              week.analyzed_sessions[j].trimp =
                 RoundHalfEven(
                    TrimpBanister(Duration(week.activities[j]),
                                  IF Truthy(week.activities[j].avg_heartrate)
                                  THEN week.activities[j].avg_heartrate
                                  ELSE Some(0),
                                  Some(SelectedHrmax)).val, 100)
        /\ pc = "week_done" => week.weekly_summary.hrmax_used = SelectedHrmax

\* an override of 0 with observed values 175.2 and 181.0: 181 is applied
C12_Witness ==
    /\ pc = "week_done"
    /\ week.hrmax = Some(0)
    /\ ObservedMax(week.activities) = Some(1810)
    /\ Len(week.activities) = 3
    /\ week.weekly_summary.hrmax_used = 181
    /\ week.analyzed_sessions[1].trimp = 130

\* C15: by_type partitions the sessions: its keys are the sport types of the
\* sessions, the count of a type is the number of its sessions and the
\* counts sum to weekly_summary.sessions; for each zone label the per-type
\* seconds sum to the weekly seconds; every per-type map has exactly the
\* five labels; no entry keeps the key total_time_s
C15_ByTypePartition ==
    pc = "week_done" =>
        LET bt == week.by_type
            ws == week.weekly_summary
        IN  /\ DOMAIN bt = {week.activities[j].type :
                               j \in 1..Len(week.activities)}
            /\ \A t \in DOMAIN bt :
                  /\ bt[t].count =
                        Cardinality({j \in 1..Len(week.activities) :
                                        week.activities[j].type = t})
                  /\ DOMAIN bt[t].time_in_zones_s =
                        {ZoneLabels[z] : z \in 1..5}
                  /\ "total_time_s" \notin DOMAIN bt[t]
            /\ SumOver([t \in DOMAIN bt |-> bt[t].count], DOMAIN bt)
                  = ws.sessions
            /\ ws.sessions = Len(week.activities)
            /\ \A z \in 1..5 :
                  SumOver([t \in DOMAIN bt |->
                              bt[t].time_in_zones_s[ZoneLabels[z]]],
                          DOMAIN bt)
                     = ws.time_in_zones_s[ZoneLabels[z]]

\* two runs, one of them attributed sample by sample, and a swim
C15_Witness ==
    /\ pc = "week_done"
    /\ DOMAIN week.by_type = {"Run", "Swim"}
    /\ week.by_type["Run"].count = 2
    /\ week.by_type["Swim"].count = 1
    /\ week.by_type["Run"].time_in_zones_s["Z3"] = 11
    /\ week.by_type["Run"].time_in_zones_s["Z4"] = 300
    /\ week.by_type["Swim"].time_in_zones_s["Z3"] = 240
    /\ week.weekly_summary.time_in_zones_s["Z3"] = 251

-----------------------------------------------------------------------------
(* Week window: _week_range_from_params                                    *)

\* date(1970, 1, 1).toordinal(): datetime.timestamp() counts from that day
EpochOrdinal == 719163

SecondsPerDay == 86400

\* range of datetime.date years
MinYear == 1

MaxYear == 9999

IsLeap(y) == y % 4 = 0 /\ (y % 100 # 0 \/ y % 400 = 0)

DaysInMonth(y, m) ==
    IF m = 2 THEN (IF IsLeap(y) THEN 29 ELSE 28)
    ELSE IF m \in {4, 6, 9, 11} THEN 30 ELSE 31

\* year, month, day that date() and strptime("%Y-%m-%d") accept
ValidDate(y, m, d) ==
    /\ y \in MinYear..MaxYear
    /\ m \in 1..12
    /\ d \in 1..DaysInMonth(y, m)

RECURSIVE DaysBeforeMonth(_, _)
DaysBeforeMonth(y, m) ==
    IF m = 1 THEN 0 ELSE DaysBeforeMonth(y, m - 1) + DaysInMonth(y, m - 1)

\* date(y, m, d).toordinal(): 0001-01-01 is day 1
ToOrdinal(y, m, d) ==
    LET p == y - 1
    IN  p * 365 + p \div 4 - p \div 100 + p \div 400 + DaysBeforeMonth(y, m) + d

\* years the dates of the model lie in
FirstYear == 2023

LastYear == 2028

\* date.fromordinal(n) as <<year, month, day>>
FromOrdinal(n) ==
    LET y == CHOOSE c \in FirstYear..LastYear :
                 ToOrdinal(c, 1, 1) <= n /\ n < ToOrdinal(c + 1, 1, 1)
        m == CHOOSE c \in 1..12 :
                 /\ ToOrdinal(y, c, 1) <= n
                 /\ n < ToOrdinal(y, c, 1) + DaysInMonth(y, c)
    IN  <<y, m, n - ToOrdinal(y, m, 1) + 1>>

\* date.isoweekday() of the day of ordinal n: Monday = 1 .. Sunday = 7
IsoWeekday(n) == ((n + 6) % 7) + 1

\* timedelta(days, seconds)
Timedelta(days, seconds) == [days |-> days, seconds |-> seconds]

\* date + timedelta and date - timedelta: only the days of the timedelta
\* count, the seconds are dropped
DatePlus(n, td) == n + td.days

DateMinus(n, td) == n - td.days

\* int(datetime(y, m, d, hh, mm, ss, tzinfo=utc).timestamp()) for the day of
\* ordinal n
Timestamp(n, hh, mm, ss) ==
    (n - EpochOrdinal) * SecondsPerDay + hh * 3600 + mm * 60 + ss

\* _monday_of_iso_week(iso_year, iso_week); date() raises ValueError for a
\* year outside MinYear..MaxYear
MondayOfIsoWeek(iso_year, iso_week) ==
    IF iso_year \notin MinYear..MaxYear THEN Raised("ValueError")
    ELSE LET jan4 == ToOrdinal(iso_year, 1, 4)
             jan4_monday == DateMinus(jan4, Timedelta(IsoWeekday(jan4) - 1, 0))
         IN  Returned(DatePlus(jan4_monday, Timedelta(7 * (iso_week - 1), 0)))

\* start of lines 36-51: the Monday of the week, or the exception; a
\* week_start is None (or "") or the text of <<year, month, day>>
WeekStartDay(week_start, iso_year, iso_week, today) ==
    IF ~IsNone(week_start)
    THEN LET t == Val(week_start)
         IN  IF ~ValidDate(t[1], t[2], t[3]) THEN Raised("ValueError")
             ELSE LET d == ToOrdinal(t[1], t[2], t[3])
                  IN  Returned(DateMinus(d, Timedelta(IsoWeekday(d) - 1, 0)))
    ELSE IF Truthy(iso_year) /\ Truthy(iso_week)
    THEN MondayOfIsoWeek(Val(iso_year), Val(iso_week))
    ELSE Returned(DateMinus(today, Timedelta(IsoWeekday(today) - 1, 0)))

\* _week_range_from_params: (after_ts, before_ts, label) or the exception;
\* the label "start..end" is the pair of the two dates
WeekRangeFromParams(week_start, iso_year, iso_week, today) ==
    LET s == WeekStartDay(week_start, iso_year, iso_week, today)
    IN  IF s.exc # ""
        THEN [exc |-> s.exc, after_ts |-> 0, before_ts |-> 0, label |-> <<>>]
        ELSE LET start == s.val
                 end == DateMinus(DatePlus(start, Timedelta(7, 0)),
                                  Timedelta(0, 1))
             IN  [exc |-> "",
                  after_ts |-> Timestamp(start, 0, 0, 0),
                  before_ts |-> Timestamp(end, 23, 59, 59),
                  label |-> <<FromOrdinal(start), FromOrdinal(end)>>]

WeekStarts ==
    {None} \cup {Some(<<2025, 8, d>>) : d \in 8..20}
           \cup {Some(<<2024, 12, 30>>), Some(<<2026, 1, 1>>),
                 Some(<<2024, 2, 29>>), Some(<<2025, 2, 30>>),
                 Some(<<2025, 13, 1>>)}

IsoYears == {None, Some(0), Some(2024), Some(2025), Some(2026), Some(10000)}

IsoWeeks == {None, Some(0), Some(1), Some(33), Some(52), Some(53)}

\* _utc_now().astimezone().date()
Todays == {ToOrdinal(2025, 8, 13), ToOrdinal(2026, 1, 4)}

InitRange ==
    /\ pc = "range_start"
    /\ range \in [week_start : WeekStarts, iso_year : IsoYears,
                  iso_week : IsoWeeks, today : Todays, result : {Idle}]
    /\ zone_model = "percent_max"
    /\ use_hrmax = 190
    /\ use_hrrest = 60
    /\ zones = <<>>
    /\ bpm = 0
    /\ zidx = 0
    /\ duration = 0
    /\ avg_hr = None
    /\ hr_stream = <<>>
    /\ vel_stream = <<>>
    /\ tiz = Idle
    /\ trimp = Idle
    /\ dec = Idle
    /\ week = Idle
    /\ brief = Idle
    /\ fetch = Idle

CallWeekRange ==
    /\ pc = "range_start"
    /\ range' = [range EXCEPT !.result =
                    WeekRangeFromParams(range.week_start, range.iso_year,
                                        range.iso_week, range.today)]
    /\ pc' = "range_done"
    /\ UNCHANGED <<zone_model, use_hrmax, use_hrrest, zones, bpm, zidx,
                   duration, avg_hr, hr_stream, vel_stream, tiz, trimp, dec,
                   week, brief, fetch>>

NextRange == CallWeekRange

SpecRange == InitRange /\ [][NextRange]_vars

\* number of ISO weeks of a year: 53 when 1 January is a Thursday, or a
\* Wednesday in a leap year
IsoWeeksOfYear(y) ==
    IF \/ IsoWeekday(ToOrdinal(y, 1, 1)) = 4
       \/ IsLeap(y) /\ IsoWeekday(ToOrdinal(y, 1, 1)) = 3
    THEN 53 ELSE 52

\* the week the call is about: the Monday-to-Sunday week that holds the
\* week_start date, or whose Thursday is the Thursday number iso_week of
\* iso_year
IsWeekOfRequest(monday) ==
    /\ IsoWeekday(monday) = 1
    /\ IF ~IsNone(range.week_start)
       THEN LET t == Val(range.week_start)
            IN  monday <= ToOrdinal(t[1], t[2], t[3])
                /\ ToOrdinal(t[1], t[2], t[3]) <= monday + 6
       ELSE /\ ToOrdinal(Val(range.iso_year), 1, 1) <= monday + 3
            /\ monday + 3 < ToOrdinal(Val(range.iso_year) + 1, 1, 1)
            /\ (monday + 3 - ToOrdinal(Val(range.iso_year), 1, 1)) \div 7 + 1
                  = Val(range.iso_week)

\* a week_start date, or without week_start a valid (iso_year, iso_week)
ValidRequest ==
    IF ~IsNone(range.week_start)
    THEN LET t == Val(range.week_start) IN ValidDate(t[1], t[2], t[3])
    ELSE /\ Truthy(range.iso_year)
         /\ Val(range.iso_year) \in MinYear..MaxYear
         /\ ~IsNone(range.iso_week)
         /\ Val(range.iso_week) \in 1..IsoWeeksOfYear(Val(range.iso_year))

\* C13: for a week_start date or a valid (iso_year, iso_week) the call
\* returns, after_ts is 00:00:00 of the Monday of the week, before_ts is
\* 23:59:59 of the Sunday six days later (the last second before the next
\* week's after_ts) and the label runs from that Monday to that Sunday
C13_WeekWindow ==
    (pc = "range_done" /\ ValidRequest) =>
        /\ range.result.exc = ""
        /\ \E monday \in (ToOrdinal(FirstYear, 1, 1) + 7)
                            ..(ToOrdinal(LastYear, 1, 1) - 1) :
              /\ IsWeekOfRequest(monday)
              /\ range.result.after_ts = Timestamp(monday, 0, 0, 0)
              /\ range.result.before_ts = Timestamp(monday + 6, 23, 59, 59)
              /\ range.result.before_ts + 1 = Timestamp(monday + 7, 0, 0, 0)
              /\ range.result.label =
                    <<FromOrdinal(monday), FromOrdinal(monday + 6)>>

-----------------------------------------------------------------------------
(* Normalisation of a raw record: _safe, _activity_to_brief                *)

\* values of a raw record: the key is absent, or its value is None, a text
\* that is not a number ("abc"), or a number in tenths
Absent == [kind |-> "absent", v |-> 0]

PyNone == [kind |-> "none", v |-> 0]

Str == [kind |-> "str", v |-> 0]

Num(n) == [kind |-> "num", v |-> n]

\* _safe(a, key, default)
Safe(a, key, default) ==
    IF a[key].kind \in {"absent", "none"} THEN default ELSE a[key]

\* float(x), in tenths
ToFloat(x) ==
    IF x.kind = "num" THEN Returned(x.v)
    ELSE IF x.kind = "str" THEN Raised("ValueError")
    ELSE Raised("TypeError")

\* int(x): truncation toward zero, in units
ToInt(x) ==
    IF x.kind = "num"
    THEN Returned(IF x.v >= 0 THEN x.v \div 10 ELSE -((-x.v) \div 10))
    ELSE IF x.kind = "str" THEN Raised("ValueError")
    ELSE Raised("TypeError")

\* float(a[key]) * 3.6 if _safe(a, key) is not None else None, then
\* round(., 1): km/h in tenths, None, or the exception
SpeedKmh(a, key) ==
    IF Safe(a, key, PyNone).kind = "none" THEN Returned(None)
    ELSE IF ToFloat(a[key]).exc # "" THEN ToFloat(a[key])
    ELSE Returned(Some(RoundHalfEven(36 * ToFloat(a[key]).val, 10)))

\* the first exception of a list of results, "" without one
FirstRaised(results) ==
    IF \E j \in 1..Len(results) : results[j].exc # ""
    THEN results[CHOOSE j \in 1..Len(results) :
                    /\ results[j].exc # ""
                    /\ \A k \in 1..(j - 1) : results[k].exc = ""].exc
    ELSE ""

\* _activity_to_brief(a): the numeric fields of the brief, or the exception
\* of the first conversion that fails; distance_km in hundredths,
\* elev_gain_m and the speeds in tenths
ActivityToBrief(a) ==
    LET dist == ToFloat(Safe(a, "distance", Num(0)))
        moving == ToInt(Safe(a, "moving_time", Num(0)))
        elapsed == ToInt(Safe(a, "elapsed_time", Num(10 * moving.val)))
        elev == ToFloat(Safe(a, "total_elevation_gain", Num(0)))
        avg_speed == SpeedKmh(a, "average_speed")
        max_speed == SpeedKmh(a, "max_speed")
        exc == FirstRaised(<<dist, moving, elapsed, elev, avg_speed, max_speed>>)
    IN  IF exc # "" THEN [exc |-> exc]
        ELSE [exc |-> "",
              distance_km |-> RoundHalfEven(dist.val, 100),
              moving_time_s |-> moving.val,
              elapsed_time_s |-> elapsed.val,
              elev_gain_m |-> elev.val,
              avg_speed_kmh |-> avg_speed.val,
              max_speed_kmh |-> max_speed.val,
              avg_heartrate |-> Safe(a, "average_heartrate", PyNone),
              max_heartrate |-> Safe(a, "max_heartrate", PyNone)]

\* the fields of the raw record that the brief converts, with a number each
RawNumbers ==
    [distance |-> 123456, moving_time |-> 127, elapsed_time |-> 209,
     total_elevation_gain |-> 104, average_speed |-> 31, max_speed |-> 42,
     average_heartrate |-> 1500, max_heartrate |-> 1752]

\* the values of one field: absent, None, a text, its number
RawValues(k) == {Absent, PyNone, Str, Num(RawNumbers[k])}

RawRecords ==
    [distance : RawValues("distance"),
     moving_time : RawValues("moving_time"),
     elapsed_time : RawValues("elapsed_time"),
     total_elevation_gain : RawValues("total_elevation_gain"),
     average_speed : RawValues("average_speed"),
     max_speed : RawValues("max_speed"),
     average_heartrate : RawValues("average_heartrate"),
     max_heartrate : RawValues("max_heartrate")]

InitBrief ==
    /\ pc = "brief_start"
    /\ brief \in [a : RawRecords, result : {Idle}]
    /\ zone_model = "percent_max"
    /\ use_hrmax = 190
    /\ use_hrrest = 60
    /\ zones = <<>>
    /\ bpm = 0
    /\ zidx = 0
    /\ duration = 0
    /\ avg_hr = None
    /\ hr_stream = <<>>
    /\ vel_stream = <<>>
    /\ tiz = Idle
    /\ trimp = Idle
    /\ dec = Idle
    /\ week = Idle
    /\ range = Idle
    /\ fetch = Idle

CallActivityToBrief ==
    /\ pc = "brief_start"
    /\ brief' = [brief EXCEPT !.result = ActivityToBrief(brief.a)]
    /\ pc' = "brief_done"
    /\ UNCHANGED <<zone_model, use_hrmax, use_hrrest, zones, bpm, zidx,
                   duration, avg_hr, hr_stream, vel_stream, tiz, trimp, dec,
                   week, range, fetch>>

NextBrief == CallActivityToBrief

SpecBrief == InitBrief /\ [][NextBrief]_vars

\* the field is missing, null or not a number
Malformed(x) == x.kind \in {"absent", "none", "str"}

\* C14: _activity_to_brief does not raise, whatever fields are missing, null
\* or not numbers; such a distance, moving time, elapsed time or elevation
\* gain gives 0 and such a speed or heart rate gives None
C14_BriefNeverRaises ==
    pc = "brief_done" =>
        LET a == brief.a
            r == brief.result
        IN  /\ r.exc = ""
            /\ Malformed(a.distance) => r.distance_km = 0
            /\ Malformed(a.moving_time) => r.moving_time_s = 0
            /\ (Malformed(a.elapsed_time) /\ Malformed(a.moving_time)) =>
                  r.elapsed_time_s = 0
            /\ Malformed(a.total_elevation_gain) => r.elev_gain_m = 0
            /\ Malformed(a.average_speed) => r.avg_speed_kmh = None
            /\ Malformed(a.max_speed) => r.max_speed_kmh = None
            /\ Malformed(a.average_heartrate) => r.avg_heartrate = PyNone
            /\ Malformed(a.max_heartrate) => r.max_heartrate = PyNone

-----------------------------------------------------------------------------
(* Paging: _fetch_activities_in_range                                      *)

PerPage == 100

\* pages the provider is asked for at most
MaxPages == 2

\* raise_for_status raises for the statuses 400..599
Failing(status) == status >= 400 /\ status < 600

\* the filter of lines 146-148 that keeps every record
KeepAll(chunk, types) == chunk

\* the records of a chunk whose type is in the filter, in order; a record
\* without type has type None
KeepTypes(chunk, types) ==
    SelectSeq(chunk, LAMBDA a : ~IsNone(a.type) /\ Val(a.type) \in types)

\* record number i of the page: ids are unique over the pages
Activity(page, i, mixed) ==
    [id |-> 1000 * page + i,
     type |-> IF ~mixed THEN Some("Run")
              ELSE IF i % 3 = 0 THEN Some("Yoga")
              ELSE IF i % 3 = 1 THEN Some("Ride")
              ELSE None]

\* the bodies the provider may answer page `page` with
Chunks(page) ==
    {[i \in 1..n |-> Activity(page, i, mixed)] :
        n \in {0, 2, PerPage - 1, PerPage}, mixed \in BOOLEAN}

\* the responses to a request: a status, and a body with status 200
Responses(page, statuses) ==
    {[status |-> 200, chunk |-> c] : c \in Chunks(page)}
        \cup {[status |-> st, chunk |-> <<>>] : st \in statuses \ {200}}

\* outcomes of _refresh_access_token_if_needed: no token (credentials
\* missing, or none in the answer), a token, or the HTTPError of its
\* raise_for_status
RefreshOutcomes ==
    {Returned(None), Returned(Some("token2")), Returned(Some("token3")),
     Raised("HTTPError")}

InitFetch ==
    /\ pc = "fetch_request"
    /\ fetch = [access_token |-> "token1", types |-> {"Run", "Ride"},
                page |-> 1, activities |-> <<>>,
                r |-> [status |-> 0, chunk |-> <<>>],
                sent |-> <<>>, refreshed |-> <<>>, chunks |-> <<>>]
    /\ zone_model = "percent_max"
    /\ use_hrmax = 190
    /\ use_hrrest = 60
    /\ zones = <<>>
    /\ bpm = 0
    /\ zidx = 0
    /\ duration = 0
    /\ avg_hr = None
    /\ hr_stream = <<>>
    /\ vel_stream = <<>>
    /\ tiz = Idle
    /\ trimp = Idle
    /\ dec = Idle
    /\ week = Idle
    /\ range = Idle
    /\ brief = Idle

\* the request sent, as the provider sees it, with the status it answered
Sent(f, resp) ==
    [page |-> f.page, token |-> f.access_token, status |-> resp.status]

\* lines 126-131: the request of the page; 401 leads to the refresh
RequestPage ==
    /\ pc = "fetch_request"
    /\ fetch.page <= MaxPages
    /\ \E resp \in Responses(fetch.page, {200, 401, 500}) :
          /\ fetch' = [fetch EXCEPT !.r = resp,
                                    !.sent = Append(@, Sent(fetch, resp))]
          /\ pc' = IF resp.status = 401 THEN "fetch_refresh" ELSE "fetch_check"
    /\ UNCHANGED <<zone_model, use_hrmax, use_hrrest, zones, bpm, zidx,
                   duration, avg_hr, hr_stream, vel_stream, tiz, trimp, dec,
                   week, range, brief>>

\* lines 132-141: after a 401 the token is refreshed; with a new token the
\* request is sent once more and its response replaces r
RefreshAndRetry ==
    /\ pc = "fetch_refresh"
    /\ \E new_token \in RefreshOutcomes :
          IF new_token.exc # ""
          THEN /\ pc' = "fetch_raised"
               /\ fetch' = [fetch EXCEPT !.refreshed = Append(@, new_token)]
          ELSE IF ~IsNone(new_token.val)
          THEN \E resp \in Responses(fetch.page, {200, 401, 403}) :
                  /\ fetch' = [fetch EXCEPT
                                  !.access_token = Val(new_token.val),
                                  !.r = resp,
                                  !.refreshed = Append(@, new_token),
                                  !.sent = Append(@,
                                      Sent([fetch EXCEPT !.access_token =
                                                Val(new_token.val)], resp))]
                  /\ pc' = "fetch_check"
          ELSE /\ pc' = "fetch_check"
               /\ fetch' = [fetch EXCEPT !.refreshed = Append(@, new_token)]
    /\ UNCHANGED <<zone_model, use_hrmax, use_hrrest, zones, bpm, zidx,
                   duration, avg_hr, hr_stream, vel_stream, tiz, trimp, dec,
                   week, range, brief>>

\* lines 142-151: raise_for_status, then the chunk: an empty chunk ends the
\* loop, the records of the filter are appended, a chunk shorter than
\* per_page ends the loop, otherwise the next page is requested
ProcessChunk ==
    /\ pc = "fetch_check"
    /\ IF Failing(fetch.r.status)
       THEN /\ pc' = "fetch_raised"
            /\ fetch' = fetch
       ELSE IF fetch.r.chunk = <<>>
       THEN /\ pc' = "fetch_done"
            /\ fetch' = [fetch EXCEPT !.chunks = Append(@, fetch.r.chunk)]
       ELSE /\ fetch' = [fetch EXCEPT
                            !.activities =
                                @ \o KeepTypes(fetch.r.chunk, fetch.types),
                            !.chunks = Append(@, fetch.r.chunk),
                            !.page = IF Len(fetch.r.chunk) < PerPage
                                     THEN @ ELSE @ + 1]
            /\ pc' = IF Len(fetch.r.chunk) < PerPage
                     THEN "fetch_done" ELSE "fetch_request"
    /\ UNCHANGED <<zone_model, use_hrmax, use_hrrest, zones, bpm, zidx,
                   duration, avg_hr, hr_stream, vel_stream, tiz, trimp, dec,
                   week, range, brief>>

NextFetch == RequestPage \/ RefreshAndRetry \/ ProcessChunk

SpecFetch == InitFetch /\ [][NextFetch]_vars

RECURSIVE FilteredPages(_, _)
\* the records of the chunks whose type is in the filter, page after page
FilteredPages(chunks, types) ==
    IF chunks = <<>> THEN <<>>
    ELSE SelectSeq(chunks[1],
                   LAMBDA a : \E t \in types : a.type = Some(t))
            \o FilteredPages(Tail(chunks), types)

\* the requests that repeat the page of the request before them
Retries(sent) == {j \in 2..Len(sent) : sent[j].page = sent[j - 1].page}

\* the token refreshes that returned a token
TokensReturned(refreshed) ==
    {k \in 1..Len(refreshed) :
        refreshed[k].exc = "" /\ ~IsNone(refreshed[k].val)}

\* C16: a page is requested at most twice, the second time only after a 401
\* and a token refresh that returned a token, with that token; a failing
\* status is followed by no request other
\* than that one retry, and the call that ends on it raises; the pages are
\* requested in order; the call returns after the first chunk shorter than
\* per_page, every chunk before it being full; the activities are the
\* records of the fetched chunks whose type is in the filter, in provider
\* order, each once
C16_FetchPaging ==
    LET sent == fetch.sent
        chunks == fetch.chunks
    IN  /\ \A p \in 1..(MaxPages + 1) :
              Cardinality({j \in 1..Len(sent) : sent[j].page = p}) <= 2
        /\ \A j \in 2..Len(sent) :
              \/ /\ sent[j].page = sent[j - 1].page
                 /\ sent[j - 1].status = 401
                 /\ \E k \in TokensReturned(fetch.refreshed) :
                       sent[j].token = Val(fetch.refreshed[k].val)
              \/ /\ sent[j].page = sent[j - 1].page + 1
                 /\ ~Failing(sent[j - 1].status)
        /\ Cardinality(Retries(sent))
              = Cardinality(TokensReturned(fetch.refreshed))
        /\ pc = "fetch_raised" => Failing(sent[Len(sent)].status)
        /\ fetch.activities = FilteredPages(chunks, fetch.types)
        /\ \A j, k \in 1..Len(fetch.activities) :
              fetch.activities[j].id = fetch.activities[k].id => j = k
        /\ \A k \in 1..Len(chunks) :
              Len(chunks[k]) < PerPage => (k = Len(chunks) /\ pc = "fetch_done")
        /\ pc = "fetch_done" =>
              /\ chunks # <<>>
              /\ Len(chunks[Len(chunks)]) < PerPage
              /\ sent[Len(sent)].page = Len(chunks)
              /\ ~Failing(sent[Len(sent)].status)

\* a full first page, a 401 on the second page, a new token, the retry
\* answered with a short page of mixed types
C16_Witness ==
    /\ pc = "fetch_done"
    /\ Len(fetch.sent) = 3
    /\ fetch.sent[2] = [page |-> 2, token |-> "token1", status |-> 401]
    /\ fetch.sent[3] = [page |-> 2, token |-> "token2", status |-> 200]
    /\ Len(fetch.chunks[1]) = PerPage
    /\ Len(fetch.chunks[2]) = PerPage - 1
    /\ Len(fetch.activities) = 133

====
